---- MODULE Spec2Model ----
(***************************************************************************)
(* Truth-table operations of kitty (include/kitty/operations.hpp).         *)
(*                                                                         *)
(* A 64-bit storage word is the set of its set bit positions (0..63), so   *)
(* that words wider than TLC's integers keep their full width: a shift     *)
(* drops what leaves the word, an increment wraps at 2^64.  A table is     *)
(* its number of variables and a function from block index (0-based, as    *)
(* in the source) to word.                                                 *)
(***************************************************************************)
EXTENDS Integers, Sequences, FiniteSets, TLC

(***************************************************************************)
(* Bounds of the model.                                                    *)
(***************************************************************************)
\* largest number of variables of a table
MaxVars == 8
\* tables of at most this many bits are enumerated exhaustively, and call
\* sequences on them are followed to any length; larger tables are inputs of
\* single calls
ExhaustBits == 8
\* structured initial tables: AND / XOR of at most this many variables
MaxTerms == 2
\* longest tracked enumeration run of next_inplace from the zero table
MaxEnum == 260
\* longest caller-supplied support list handed to expand_inplace
MaxSupportLen == 2
\* largest weight of a linear form the solver hands to is_threshold
MaxWeight == 2

(***************************************************************************)
(* uint64_t arithmetic on words.                                           *)
(***************************************************************************)
WordBits == 64

W64 == 0 .. (WordBits - 1)

\* bit i of the address x
Bit(x, i) == (x \div (2 ^ i)) % 2

\* word << s, for 0 <= s < 64
Shl(w, s) == { c + s : c \in { d \in w : d + s < WordBits } }

\* word >> s, for 0 <= s < 64
Shr(w, s) == { c - s : c \in { d \in w : d >= s } }

\* ~word
Not(w) == W64 \ w

\* ++word, wrapping to 0 at 2^64
Inc(w) ==
  IF w = W64 THEN {}
  ELSE LET k == CHOOSE z \in W64 \ w : \A y \in W64 \ w : z <= y
       IN  { c \in w : c > k } \cup {k}

(***************************************************************************)
(* Storage model and constant mask tables (detail/constants.hpp and the    *)
(* truth-table classes; described in sections 3 and 4.1 of the             *)
(* specification).                                                         *)
(***************************************************************************)
num_blocks(n) == IF n <= 6 THEN 1 ELSE 2 ^ (n - 6)

num_bits(n) == 2 ^ n

\* projections[i]: the positions of a word where variable i is 1
projections == [ i \in 0 .. 5 |-> { c \in W64 : Bit(c, i) = 1 } ]

\* projections_neg[i]: the positions of a word where variable i is 0
projections_neg == [ i \in 0 .. 5 |-> { c \in W64 : Bit(c, i) = 0 } ]

\* masks[n]: the low 2^n positions of a word
masks == [ n \in 0 .. 6 |-> { c \in W64 : c < 2 ^ n } ]

\* permutation_masks[i]: untouched / move-up / move-down groups for the
\* swap of the adjacent variables i and i+1
permutation_masks ==
  [ i \in 0 .. 4 |->
      [ k \in 0 .. 2 |->
          CASE k = 0 -> { c \in W64 : Bit(c, i) = Bit(c, i + 1) }
            [] k = 1 -> { c \in W64 : Bit(c, i) = 1 /\ Bit(c, i + 1) = 0 }
            [] k = 2 -> { c \in W64 : Bit(c, i) = 0 /\ Bit(c, i + 1) = 1 } ] ]

\* ppermutation_masks[i][j], i < j: the same three groups for the pair i, j
ppermutation_masks ==
  [ i \in 0 .. 5 |->
      [ j \in 0 .. 5 |->
          [ k \in 0 .. 2 |->
              CASE k = 0 -> { c \in W64 : Bit(c, i) = Bit(c, j) }
                [] k = 1 -> { c \in W64 : Bit(c, i) = 1 /\ Bit(c, j) = 0 }
                [] k = 2 -> { c \in W64 : Bit(c, i) = 0 /\ Bit(c, j) = 1 } ] ] ]

\* dynamic_truth_table::mask_bits
mask_bits(n, b) ==
  IF n < 6 THEN [ b EXCEPT ![0] = b[0] \cap masks[n] ] ELSE b

\* static_truth_table<NumVars, true>::mask_bits
mask_bits_static(n, b) == [ b EXCEPT ![0] = b[0] \cap masks[n] ]

\* clear( tt )
clear(n, b) == [ k \in DOMAIN b |-> {} ]

(***************************************************************************)
(* has_var                                                                 *)
(***************************************************************************)
\* mutant: the unshifted half is taken with projections instead of projections_neg
has_var_word_wrong_mask(word, var_index) ==
  (Shr(word, 2 ^ var_index) \cap projections_neg[var_index])
    # (word \cap projections[var_index])

has_var_word(word, var_index) ==
  (Shr(word, 2 ^ var_index) \cap projections_neg[var_index])
    # (word \cap projections_neg[var_index])

RECURSIVE has_var_inner(_, _, _, _)
has_var_inner(b, i, j, step) ==
  IF j < step
  THEN IF b[i + j] # b[i + j + step] THEN TRUE
       ELSE has_var_inner(b, i, j + 1, step)
  ELSE FALSE

RECURSIVE has_var_outer(_, _, _, _)
has_var_outer(b, i, step, nb) ==
  IF i < nb
  THEN IF has_var_inner(b, i, 0, step) THEN TRUE
       ELSE has_var_outer(b, i + 2 * step, step, nb)
  ELSE FALSE

has_var(n, b, var_index) ==
  IF n <= 6 \/ var_index < 6
  THEN \E k \in DOMAIN b : has_var_word(b[k], var_index)
  ELSE has_var_outer(b, 0, 2 ^ (var_index - 6), num_blocks(n))

has_var_static(n, b, var_index) == has_var_word(b[0], var_index)

(***************************************************************************)
(* next_inplace                                                            *)
(***************************************************************************)
\* mutant: the carry into the next word is dropped
next_loop_no_carry(b, i, nb) ==
  IF i < nb THEN [ b EXCEPT ![i] = Inc(b[i]) ] ELSE b

RECURSIVE next_loop(_, _, _)
next_loop(b, i, nb) ==
  IF i < nb
  THEN LET b1 == [ b EXCEPT ![i] = Inc(b[i]) ]
       IN  IF b1[i] # {} THEN b1 ELSE next_loop(b1, i + 1, nb)
  ELSE b

\* mutant: the single-word increment is not followed by mask_bits
next_inplace_unmasked(n, b) ==
  IF n <= 6
  THEN [ b EXCEPT ![0] = Inc(b[0]) ]
  ELSE next_loop(b, 0, num_blocks(n))

next_inplace(n, b) ==
  IF n <= 6
  THEN mask_bits(n, [ b EXCEPT ![0] = Inc(b[0]) ])
  ELSE next_loop(b, 0, num_blocks(n))

next_inplace_static(n, b) ==
  mask_bits_static(n, [ b EXCEPT ![0] = Inc(b[0]) ])

(***************************************************************************)
(* cofactor0_inplace / cofactor1_inplace                                   *)
(***************************************************************************)
cofactor0_word(word, var_index) ==
  Shl(word \cap projections_neg[var_index], 2 ^ var_index)
    \cup (word \cap projections_neg[var_index])

RECURSIVE cofactor0_inner(_, _, _, _)
cofactor0_inner(b, i, j, step) ==
  IF j < step
  THEN cofactor0_inner([ b EXCEPT ![i + j + step] = b[i + j] ], i, j + 1, step)
  ELSE b

RECURSIVE cofactor0_outer(_, _, _, _)
cofactor0_outer(b, i, step, nb) ==
  IF i < nb
  THEN cofactor0_outer(cofactor0_inner(b, i, 0, step), i + 2 * step, step, nb)
  ELSE b

cofactor0_inplace(n, b, var_index) ==
  IF n <= 6 \/ var_index < 6
  THEN [ k \in DOMAIN b |-> cofactor0_word(b[k], var_index) ]
  ELSE cofactor0_outer(b, 0, 2 ^ (var_index - 6), num_blocks(n))

cofactor0_inplace_static(n, b, var_index) ==
  [ b EXCEPT ![0] = cofactor0_word(b[0], var_index) ]

cofactor1_word(word, var_index) ==
  (word \cap projections[var_index])
    \cup Shr(word \cap projections[var_index], 2 ^ var_index)

\* mutant: the blocks are copied in the direction of cofactor0
cofactor1_inner_wrong_way(b, i, j, step) == cofactor0_inner(b, i, j, step)

RECURSIVE cofactor1_inner(_, _, _, _)
cofactor1_inner(b, i, j, step) ==
  IF j < step
  THEN cofactor1_inner([ b EXCEPT ![i + j] = b[i + j + step] ], i, j + 1, step)
  ELSE b

RECURSIVE cofactor1_outer(_, _, _, _)
cofactor1_outer(b, i, step, nb) ==
  IF i < nb
  THEN cofactor1_outer(cofactor1_inner(b, i, 0, step), i + 2 * step, step, nb)
  ELSE b

cofactor1_inplace(n, b, var_index) ==
  IF n <= 6 \/ var_index < 6
  THEN [ k \in DOMAIN b |-> cofactor1_word(b[k], var_index) ]
  ELSE cofactor1_outer(b, 0, 2 ^ (var_index - 6), num_blocks(n))

cofactor1_inplace_static(n, b, var_index) ==
  [ b EXCEPT ![0] = cofactor1_word(b[0], var_index) ]

(***************************************************************************)
(* swap_adjacent_inplace                                                   *)
(***************************************************************************)
swap_adjacent_word(word, var_index) ==
  (word \cap permutation_masks[var_index][0])
    \cup Shl(word \cap permutation_masks[var_index][1], 2 ^ var_index)
    \cup Shr(word \cap permutation_masks[var_index][2], 2 ^ var_index)

\* 0xffffffff
LowHalf == 0 .. 31

\* UINT64_C( 0xffffffff00000000 )
HighHalf == 32 .. 63

\* mutant: the second word is built from the overwritten first word, not tmp
RECURSIVE swap_adjacent_halves_no_tmp(_, _, _)
swap_adjacent_halves_no_tmp(b, it, nb) ==
  IF it # nb
  THEN LET it2 == it + 1
           b1  == [ b EXCEPT ![it] = (b[it] \cap LowHalf) \cup Shl(b[it2], 32) ]
           b2  == [ b1 EXCEPT ![it2] = (b1[it2] \cap HighHalf) \cup Shr(b1[it], 32) ]
       IN  swap_adjacent_halves_no_tmp(b2, it + 2, nb)
  ELSE b

RECURSIVE swap_adjacent_halves(_, _, _)
swap_adjacent_halves(b, it, nb) ==
  IF it # nb
  THEN LET tmp == b[it]
           it2 == it + 1
           b1  == [ b EXCEPT ![it] = (tmp \cap LowHalf) \cup Shl(b[it2], 32) ]
           b2  == [ b1 EXCEPT ![it2] = (b1[it2] \cap HighHalf) \cup Shr(tmp, 32) ]
       IN  swap_adjacent_halves(b2, it + 2, nb)
  ELSE b

\* mutant: the first two of the four block groups are exchanged, not the
\* two in the middle
RECURSIVE swap_adjacent_inner_wrong_blocks(_, _, _, _)
swap_adjacent_inner_wrong_blocks(b, it, i, step) ==
  IF i < step
  THEN swap_adjacent_inner_wrong_blocks(
         [ b EXCEPT ![it + i] = b[it + i + step],
                    ![it + i + step] = b[it + i] ],
         it, i + 1, step)
  ELSE b

RECURSIVE swap_adjacent_inner(_, _, _, _)
swap_adjacent_inner(b, it, i, step) ==
  IF i < step
  THEN swap_adjacent_inner(
         [ b EXCEPT ![it + i + step] = b[it + i + 2 * step],
                    ![it + i + 2 * step] = b[it + i + step] ],
         it, i + 1, step)
  ELSE b

RECURSIVE swap_adjacent_outer(_, _, _, _)
swap_adjacent_outer(b, it, step, nb) ==
  IF it # nb
  THEN swap_adjacent_outer(swap_adjacent_inner(b, it, 0, step), it + 4 * step, step, nb)
  ELSE b

swap_adjacent_inplace(n, b, var_index) ==
  IF var_index < 5
  THEN [ k \in DOMAIN b |-> swap_adjacent_word(b[k], var_index) ]
  ELSE IF var_index = 5
       THEN swap_adjacent_halves(b, 0, num_blocks(n))
       ELSE swap_adjacent_outer(b, 0, 2 ^ (var_index - 6), num_blocks(n))

swap_adjacent_inplace_static(n, b, var_index) ==
  [ b EXCEPT ![0] = swap_adjacent_word(b[0], var_index) ]

(***************************************************************************)
(* swap_inplace                                                            *)
(***************************************************************************)
swap_word(word, var_index1, var_index2) ==
  LET pmask == ppermutation_masks[var_index1][var_index2]
      shift == 2 ^ var_index2 - 2 ^ var_index1
  IN  (word \cap pmask[0]) \cup Shl(word \cap pmask[1], shift)
        \cup Shr(word \cap pmask[2], shift)

\* mutant: low_to_high is read after the low block has been overwritten
RECURSIVE swap_cross_inner_late_read(_, _, _, _, _)
swap_cross_inner_late_read(b, it, i, step, var_index1) ==
  IF i < step
  THEN LET shift       == 2 ^ var_index1
           high_to_low == Shl(b[it + i + step], shift) \cap projections[var_index1]
           b1 == [ b EXCEPT ![it + i] =
                     (b[it + i] \cap Not(projections[var_index1])) \cup high_to_low ]
           low_to_high == Shr(b1[it + i] \cap projections[var_index1], shift)
           b2 == [ b1 EXCEPT ![it + i + step] =
                     (b1[it + i + step] \cap projections[var_index1]) \cup low_to_high ]
       IN  swap_cross_inner_late_read(b2, it, i + 1, step, var_index1)
  ELSE b

RECURSIVE swap_cross_inner(_, _, _, _, _)
swap_cross_inner(b, it, i, step, var_index1) ==
  IF i < step
  THEN LET shift       == 2 ^ var_index1
           low_to_high == Shr(b[it + i] \cap projections[var_index1], shift)
           high_to_low == Shl(b[it + i + step], shift) \cap projections[var_index1]
           b1 == [ b EXCEPT ![it + i] =
                     (b[it + i] \cap Not(projections[var_index1])) \cup high_to_low ]
           b2 == [ b1 EXCEPT ![it + i + step] =
                     (b1[it + i + step] \cap projections[var_index1]) \cup low_to_high ]
       IN  swap_cross_inner(b2, it, i + 1, step, var_index1)
  ELSE b

RECURSIVE swap_cross_outer(_, _, _, _, _)
swap_cross_outer(b, it, step, var_index1, nb) ==
  IF it # nb
  THEN swap_cross_outer(swap_cross_inner(b, it, 0, step, var_index1),
                        it + 2 * step, step, var_index1, nb)
  ELSE b

RECURSIVE swap_blocks_j(_, _, _, _, _, _)
swap_blocks_j(b, it, i, j, step1, step2) ==
  IF j < step1
  THEN swap_blocks_j(
         [ b EXCEPT ![it + i + j + step1] = b[it + i + j + step2],
                    ![it + i + j + step2] = b[it + i + j + step1] ],
         it, i, j + 1, step1, step2)
  ELSE b

RECURSIVE swap_blocks_i(_, _, _, _, _)
swap_blocks_i(b, it, i, step1, step2) ==
  IF i < step2
  THEN swap_blocks_i(swap_blocks_j(b, it, i, 0, step1, step2),
                     it, i + 2 * step1, step1, step2)
  ELSE b

RECURSIVE swap_blocks_outer(_, _, _, _, _)
swap_blocks_outer(b, it, step1, step2, nb) ==
  IF it # nb
  THEN swap_blocks_outer(swap_blocks_i(b, it, 0, step1, step2),
                         it + 2 * step2, step1, step2, nb)
  ELSE b

swap_inplace(n, b, var_index1, var_index2) ==
  IF var_index1 = var_index2 THEN b
  ELSE LET v1 == IF var_index1 > var_index2 THEN var_index2 ELSE var_index1
           v2 == IF var_index1 > var_index2 THEN var_index1 ELSE var_index2
       IN  IF n <= 6
           THEN [ b EXCEPT ![0] = swap_word(b[0], v1, v2) ]
           ELSE IF v2 <= 5
                THEN [ k \in DOMAIN b |-> swap_word(b[k], v1, v2) ]
                ELSE IF v1 <= 5
                     THEN swap_cross_outer(b, 0, 2 ^ (v2 - 6), v1, num_blocks(n))
                     ELSE swap_blocks_outer(b, 0, 2 ^ (v1 - 6), 2 ^ (v2 - 6),
                                            num_blocks(n))

swap_inplace_static(n, b, var_index1, var_index2) ==
  IF var_index1 = var_index2 THEN b
  ELSE LET v1 == IF var_index1 > var_index2 THEN var_index2 ELSE var_index1
           v2 == IF var_index1 > var_index2 THEN var_index1 ELSE var_index2
       IN  [ b EXCEPT ![0] = swap_word(b[0], v1, v2) ]

(***************************************************************************)
(* flip_inplace                                                            *)
(***************************************************************************)
flip_word(word, var_index) ==
  LET shift == 2 ^ var_index
  IN  (Shl(word, shift) \cap projections[var_index])
        \cup Shr(word \cap projections[var_index], shift)

\* mutant: the two blocks are assigned one after the other without a temporary
RECURSIVE flip_inner_no_tmp(_, _, _, _)
flip_inner_no_tmp(b, it, i, step) ==
  IF i < step
  THEN LET b1 == [ b EXCEPT ![it + i] = b[it + i + step] ]
       IN  flip_inner_no_tmp([ b1 EXCEPT ![it + i + step] = b1[it + i] ],
                             it, i + 1, step)
  ELSE b

RECURSIVE flip_inner(_, _, _, _)
flip_inner(b, it, i, step) ==
  IF i < step
  THEN flip_inner([ b EXCEPT ![it + i] = b[it + i + step],
                             ![it + i + step] = b[it + i] ],
                  it, i + 1, step)
  ELSE b

RECURSIVE flip_outer(_, _, _, _)
flip_outer(b, it, step, nb) ==
  IF it # nb
  THEN flip_outer(flip_inner(b, it, 0, step), it + 2 * step, step, nb)
  ELSE b

flip_inplace(n, b, var_index) ==
  IF num_blocks(n) = 1
  THEN [ b EXCEPT ![0] = flip_word(b[0], var_index) ]
  ELSE IF var_index < 6
       THEN [ k \in DOMAIN b |-> flip_word(b[k], var_index) ]
       ELSE flip_outer(b, 0, 2 ^ (var_index - 6), num_blocks(n))

flip_inplace_static(n, b, var_index) ==
  [ b EXCEPT ![0] = flip_word(b[0], var_index) ]

(***************************************************************************)
(* Overload resolution: static_truth_table<NumVars, true> selects the      *)
(* single-word specialisations.                                            *)
(***************************************************************************)
call_has_var(st, n, b, var_index) ==
  IF st THEN has_var_static(n, b, var_index) ELSE has_var(n, b, var_index)

call_swap_inplace(st, n, b, var_index1, var_index2) ==
  IF st THEN swap_inplace_static(n, b, var_index1, var_index2)
  ELSE swap_inplace(n, b, var_index1, var_index2)

call_next_inplace(st, n, b) ==
  IF st THEN next_inplace_static(n, b) ELSE next_inplace(n, b)

call_cofactor0_inplace(st, n, b, var_index) ==
  IF st THEN cofactor0_inplace_static(n, b, var_index)
  ELSE cofactor0_inplace(n, b, var_index)

call_cofactor1_inplace(st, n, b, var_index) ==
  IF st THEN cofactor1_inplace_static(n, b, var_index)
  ELSE cofactor1_inplace(n, b, var_index)

call_swap_adjacent_inplace(st, n, b, var_index) ==
  IF st THEN swap_adjacent_inplace_static(n, b, var_index)
  ELSE swap_adjacent_inplace(n, b, var_index)

call_flip_inplace(st, n, b, var_index) ==
  IF st THEN flip_inplace_static(n, b, var_index)
  ELSE flip_inplace(n, b, var_index)

(***************************************************************************)
(* min_base_inplace / expand_inplace.  The std::vector support is the      *)
(* sequence whose element pos + 1 is support[pos].                         *)
(***************************************************************************)
\* mutant: the position k a variable is moved to is recorded, not its index i
RECURSIVE min_base_loop_records_position(_, _, _, _, _, _)
min_base_loop_records_position(st, n, b, k, i, support) ==
  IF i < n
  THEN IF ~call_has_var(st, n, b, i)
       THEN min_base_loop_records_position(st, n, b, k, i + 1, support)
       ELSE min_base_loop_records_position(
              st, n, IF k < i THEN call_swap_inplace(st, n, b, k, i) ELSE b,
              k + 1, i + 1, Append(support, k))
  ELSE [ bits |-> b, support |-> support ]

RECURSIVE min_base_loop(_, _, _, _, _, _)
min_base_loop(st, n, b, k, i, support) ==
  IF i < n
  THEN IF ~call_has_var(st, n, b, i)
       THEN min_base_loop(st, n, b, k, i + 1, support)
       ELSE min_base_loop(st, n,
                          IF k < i THEN call_swap_inplace(st, n, b, k, i) ELSE b,
                          k + 1, i + 1, Append(support, i))
  ELSE [ bits |-> b, support |-> support ]

min_base_inplace(st, n, b) == min_base_loop(st, n, b, 0, 0, << >>)

\* ok = FALSE: the assertion i <= support[i] failed
RECURSIVE expand_loop(_, _, _, _, _)
expand_loop(st, n, b, support, i) ==
  IF i >= 0
  THEN IF ~(i <= support[i + 1])
       THEN [ bits |-> b, ok |-> FALSE ]
       ELSE expand_loop(st, n, call_swap_inplace(st, n, b, i, support[i + 1]),
                        support, i - 1)
  ELSE [ bits |-> b, ok |-> TRUE ]

\* mutant: the recorded swaps are replayed first to last
RECURSIVE expand_loop_forward(_, _, _, _, _)
expand_loop_forward(st, n, b, support, i) ==
  IF i < Len(support)
  THEN IF ~(i <= support[i + 1])
       THEN [ bits |-> b, ok |-> FALSE ]
       ELSE expand_loop_forward(st, n,
                                call_swap_inplace(st, n, b, i, support[i + 1]),
                                support, i + 1)
  ELSE [ bits |-> b, ok |-> TRUE ]

expand_inplace_forward(st, n, b, support) == expand_loop_forward(st, n, b, support, 0)

expand_inplace(st, n, b, support) ==
  expand_loop(st, n, b, support, Len(support) - 1)

(***************************************************************************)
(* extend_to: tt has n2 variables and holds b2, from has n1 and holds b1   *)
(***************************************************************************)
\* mutant: the pattern is doubled by a shift of i, not of 2^i, positions
RECURSIVE extend_mask_linear_shift(_, _, _)
extend_mask_linear_shift(mask, i, limit) ==
  IF i < limit
  THEN extend_mask_linear_shift(mask \cup Shl(mask, i), i + 1, limit)
  ELSE mask

RECURSIVE extend_mask(_, _, _)
extend_mask(mask, i, limit) ==
  IF i < limit
  THEN extend_mask(mask \cup Shl(mask, 2 ^ i), i + 1, limit)
  ELSE mask

RECURSIVE extend_tile(_, _, _, _, _)
extend_tile(b2, it, b1, nb1, nb2) ==
  IF it # nb2
  THEN extend_tile([ k \in DOMAIN b2 |->
                       IF k >= it /\ k < it + nb1 THEN b1[k - it] ELSE b2[k] ],
                   it + nb1, b1, nb1, nb2)
  ELSE b2

extend_to(n2, b2, n1, b1) ==
  IF n1 < 6
  THEN LET mask == extend_mask(b1[0], n1, IF n2 < 6 THEN n2 ELSE 6)
       IN  [ k \in DOMAIN b2 |-> mask ]
  ELSE extend_tile(b2, 0, b1, num_blocks(n1), num_blocks(n2))

(***************************************************************************)
(* shift_left_inplace.  `word <<= shift` with shift >= 64 is undefined in  *)
(* C++: the hardware shifts by shift mod 64 or yields 0, so the operator   *)
(* gives the set of tables a build can produce.                            *)
(***************************************************************************)
shl_assign(word, shift) ==
  IF shift < WordBits THEN { Shl(word, shift) }
  ELSE { Shl(word, shift % WordBits), {} }

\* mutant: the bits that leave block i - 1 at its top are not carried into
\* the block above
RECURSIVE shift_carry_loop_no_carry(_, _, _, _, _)
shift_carry_loop_no_carry(b, i, div, rem, rshift) ==
  IF i > 0
  THEN shift_carry_loop_no_carry([ b EXCEPT ![i + div] = Shl(b[i], rem) ],
                                 i - 1, div, rem, rshift)
  ELSE b

RECURSIVE shift_carry_loop(_, _, _, _, _)
shift_carry_loop(b, i, div, rem, rshift) ==
  IF i > 0
  THEN shift_carry_loop(
         [ b EXCEPT ![i + div] = Shl(b[i], rem) \cup Shr(b[i - 1], rshift) ],
         i - 1, div, rem, rshift)
  ELSE b

RECURSIVE shift_copy_loop(_, _, _)
shift_copy_loop(b, i, div) ==
  IF i > 0
  THEN shift_copy_loop([ b EXCEPT ![i + div] = b[i] ], i - 1, div)
  ELSE b

shift_left_inplace(n, b, shift) ==
  IF n <= 6
  THEN { mask_bits(n, [ b EXCEPT ![0] = w ]) : w \in shl_assign(b[0], shift) }
  ELSE IF shift >= num_bits(n)
       THEN { clear(n, b) }
       ELSE IF shift > 0
            THEN LET last == num_blocks(n) - 1
                     div  == shift \div WordBits
                     rem  == shift % WordBits
                     b1   == IF rem # 0
                             THEN LET l == shift_carry_loop(b, last - div, div, rem,
                                                            WordBits - rem)
                                  IN  [ l EXCEPT ![div] = Shl(l[0], rem) ]
                             ELSE LET l == shift_copy_loop(b, last - div, div)
                                  IN  [ l EXCEPT ![div] = l[0] ]
                 IN  { [ k \in DOMAIN b1 |-> IF k < div THEN {} ELSE b1[k] ] }
            ELSE { b }

shift_left_inplace_static(n, b, shift) ==
  { mask_bits_static(n, [ b EXCEPT ![0] = w ]) : w \in shl_assign(b[0], shift) }

(***************************************************************************)
(* equal / less_than on two tables of the same number of variables         *)
(***************************************************************************)
\* operator< on uint64_t: y has a bit that x lacks above every bit that x
\* has and y lacks
word_less(x, y) == \E c \in y \ x : \A d \in x \ y : d < c

equal(first, second) == \A k \in DOMAIN first : first[k] = second[k]

\* mutant: the blocks are compared from the least significant one
RECURSIVE less_than_loop_forward(_, _, _)
less_than_loop_forward(first, second, i) ==
  IF i < 0 THEN FALSE
  ELSE LET k == Cardinality(DOMAIN first) - 1 - i
       IN  IF word_less(first[k], second[k]) THEN TRUE
           ELSE IF word_less(second[k], first[k]) THEN FALSE
           ELSE less_than_loop_forward(first, second, i - 1)

\* std::lexicographical_compare over rbegin() .. rend(): i runs from the last
\* block down to block 0
RECURSIVE less_than_loop(_, _, _)
less_than_loop(first, second, i) ==
  IF i < 0 THEN FALSE
  ELSE IF word_less(first[i], second[i]) THEN TRUE
  ELSE IF word_less(second[i], first[i]) THEN FALSE
  ELSE less_than_loop(first, second, i - 1)

less_than(first, second) ==
  less_than_loop(first, second, Cardinality(DOMAIN first) - 1)

less_than_static(first, second) == word_less(first[0], second[0])

call_less_than(st, first, second) ==
  IF st THEN less_than_static(first, second) ELSE less_than(first, second)

(***************************************************************************)
(* is_threshold (threshold_identification.hpp): unate normalisation of a   *)
(* working copy tt0, the linear form the solver found for tt0, and the     *)
(* loop that turns it into a linear form of tt.  linear_form is the        *)
(* sequence whose element i + 1 is linear_form[i].                         *)
(***************************************************************************)
\* get_bit( tt, bit )
get_bit(b, bit) == IF (bit % WordBits) \in b[bit \div WordBits] THEN 1 ELSE 0

\* out-of-place cofactors: a copy is made and changed in place
cofactor0(st, n, b, var_index) == call_cofactor0_inplace(st, n, b, var_index)

cofactor1(st, n, b, var_index) == call_cofactor1_inplace(st, n, b, var_index)

RECURSIVE negative_unate_loop(_, _, _, _)
negative_unate_loop(tt0, tt1, bit, limit) ==
  IF bit < limit
  THEN IF get_bit(tt0, bit) >= get_bit(tt1, bit)
       THEN negative_unate_loop(tt0, tt1, bit + 1, limit)
       ELSE FALSE
  ELSE TRUE

\* the loop runs to 2 << ( num_vars - 1 ); is_threshold calls it for
\* num_vars >= 1 only
is_negative_unate_in_i(st, n, tt, i) ==
  negative_unate_loop(cofactor0(st, n, tt, i), cofactor1(st, n, tt, i), 0,
                      2 * 2 ^ (n - 1))

RECURSIVE positive_unate_loop(_, _, _, _)
positive_unate_loop(tt0, tt1, bit, limit) ==
  IF bit < limit
  THEN IF get_bit(tt0, bit) <= get_bit(tt1, bit)
       THEN positive_unate_loop(tt0, tt1, bit + 1, limit)
       ELSE FALSE
  ELSE TRUE

is_positive_unate_in_i(st, n, tt, i) ==
  positive_unate_loop(cofactor0(st, n, tt, i), cofactor1(st, n, tt, i), 0,
                      2 * 2 ^ (n - 1))

\* the first loop of is_threshold: unate = FALSE when it returned false
RECURSIVE unate_loop(_, _, _, _, _)
unate_loop(st, n, tt, tt0, i) ==
  IF i < n
  THEN LET neg_unate == is_negative_unate_in_i(st, n, tt, i)
       IN  IF ~is_positive_unate_in_i(st, n, tt, i) /\ ~neg_unate
           THEN [ unate |-> FALSE, tt0 |-> tt0 ]
           ELSE unate_loop(st, n, tt,
                           IF neg_unate THEN call_flip_inplace(st, n, tt0, i) ELSE tt0,
                           i + 1)
  ELSE [ unate |-> TRUE, tt0 |-> tt0 ]

\* mutant: the threshold is corrected with the weight before it is negated
RECURSIVE linear_form_loop_adds_first(_, _, _, _, _)
linear_form_loop_adds_first(st, n, tt, linear_form, i) ==
  IF i < Len(linear_form) - 1
  THEN IF is_negative_unate_in_i(st, n, tt, i)
       THEN LET size == Len(linear_form)
                l1   == [ linear_form EXCEPT ![size] = linear_form[size] + linear_form[i + 1] ]
                l2   == [ l1 EXCEPT ![i + 1] = 0 - l1[i + 1] ]
            IN  linear_form_loop_adds_first(st, n, tt, l2, i + 1)
       ELSE linear_form_loop_adds_first(st, n, tt, linear_form, i + 1)
  ELSE linear_form

\* the loop over linear_form after the solver's answer was read
RECURSIVE linear_form_loop(_, _, _, _, _)
linear_form_loop(st, n, tt, linear_form, i) ==
  IF i < Len(linear_form) - 1
  THEN IF is_negative_unate_in_i(st, n, tt, i)
       THEN LET size == Len(linear_form)
                l1   == [ linear_form EXCEPT ![i + 1] = 0 - linear_form[i + 1] ]
                l2   == [ l1 EXCEPT ![size] = l1[size] + l1[i + 1] ]
            IN  linear_form_loop(st, n, tt, l2, i + 1)
       ELSE linear_form_loop(st, n, tt, linear_form, i + 1)
  ELSE linear_form

\* answer: what was read from the solver, infeasible or the values of the
\* weights followed by the threshold
is_threshold(st, n, tt, answer) ==
  LET u == unate_loop(st, n, tt, tt, 0)
  IN  IF ~u.unate THEN [ ret |-> FALSE, plf |-> << >>, tt0 |-> u.tt0 ]
      ELSE IF ~answer.feasible THEN [ ret |-> FALSE, plf |-> << >>, tt0 |-> u.tt0 ]
      ELSE [ ret |-> TRUE, plf |-> linear_form_loop(st, n, tt, answer.values, 0),
             tt0 |-> u.tt0 ]

(***************************************************************************)
(* State: one truth table under a caller that applies the operations.      *)
(* In mode "call" the caller makes one call on an input table and the call *)
(* is recorded in prev and last; in mode "sequence" it makes one call      *)
(* after another on a zero-initialised table, as long as the table is      *)
(* small enough to enumerate, and nothing is recorded.                     *)
(***************************************************************************)
VARIABLES
  mode,          \* "call" or "sequence"
  num_vars,      \* tt.num_vars()
  bits,          \* tt._bits, block index -> word
  static_small,  \* tt is a static_truth_table<NumVars, true> (single uint64_t)
  pc,            \* "run", "abort" (an assertion failed) or "undefined"
  prev,          \* mode "call": the table before the call
  last,          \* mode "call": the call, its arguments and returned value
  valid,         \* every call so far met its documented precondition
  enum           \* calls of next_inplace since a zero table, when nothing
                 \* else was called; -1 otherwise

vars == << mode, num_vars, bits, static_small, pc, prev, last, valid, enum >>

Min(a, b) == IF a < b THEN a ELSE b

\* the table whose set bits are the addresses in S
TableOf(n, S) ==
  [ k \in 0 .. (num_blocks(n) - 1) |-> { c \in W64 : WordBits * k + c \in S } ]

\* the addresses of the set bits of a table
Ones(b) == UNION { { WordBits * k + c : c \in b[k] } : k \in DOMAIN b }

\* invariant I1 of the storage model
Masked(n, b) == \A k \in DOMAIN b : \A c \in b[k] : WordBits * k + c < num_bits(n)

Addresses(n) == 0 .. (num_bits(n) - 1)

(***************************************************************************)
(* Inputs.  Every table is reachable from the zero table by next_inplace.  *)
(***************************************************************************)
VarSets(n) ==
  { V \in SUBSET (0 .. (n - 1)) : Cardinality(V) >= 1 /\ Cardinality(V) <= MaxTerms }

StructuredTables(n) ==
  { TableOf(n, {}) }
    \cup { TableOf(n, {a}) : a \in Addresses(n) }
    \cup { TableOf(n, 0 .. (2 ^ j - 1)) : j \in 0 .. n }
    \cup { TableOf(n, 0 .. (WordBits * k - 1)) : k \in 1 .. num_blocks(n) }
    \cup { TableOf(n, { x \in Addresses(n) : \A v \in V : Bit(x, v) = 1 }) :
             V \in VarSets(n) }
    \cup { TableOf(n, { x \in Addresses(n) :
                          Cardinality({ v \in V : Bit(x, v) = 1 }) % 2 = 1 }) :
             V \in VarSets(n) }

InitTables(n) ==
  IF num_bits(n) <= ExhaustBits
  THEN { TableOf(n, S) : S \in SUBSET Addresses(n) }
  ELSE { b \in StructuredTables(n) : Masked(n, b) }

Kinds(n) == IF n <= 6 THEN BOOLEAN ELSE { FALSE }

\* variable indexes a caller passes: the valid ones and, past them, up to the
\* first index that no word-internal mask table holds
VarIndexes == 0 .. (IF num_vars < 6 THEN 6 ELSE num_vars)

Shifts == { 0, 1, 2, 4, 8, 16, 31, 32, 33, 63, 64, 65, 127, 128, 129, 192, 255,
            256, 300 }

RECURSIVE SeqsUpTo(_, _)
SeqsUpTo(S, len) ==
  IF len = 0 THEN { << >> }
  ELSE LET shorter == SeqsUpTo(S, len - 1)
       IN  shorter \cup { Append(s, x) : s \in { t \in shorter : Len(t) = len - 1 },
                                           x \in S }

Increasing(s) == \A p \in 1 .. (Len(s) - 1) : s[p] < s[p + 1]

SupportInputs(n) ==
  { s \in SeqsUpTo(0 .. (n - 1), MaxSupportLen) : Increasing(s) }
    \cup SeqsUpTo(0 .. (Min(n, MaxSupportLen) - 1), MaxSupportLen)

\* what the destination of extend_to holds before the call
DstContents(n) ==
  { [ k \in 0 .. (num_blocks(n) - 1) |-> {} ],
    [ k \in 0 .. (num_blocks(n) - 1) |-> IF n < 6 THEN masks[n] ELSE W64 ] }

Call(op, i, j, res, sup) == [ op |-> op, i |-> i, j |-> j, res |-> res, sup |-> sup ]

Init ==
  /\ mode \in { "call", "sequence" }
  /\ num_vars \in IF mode = "call" THEN 0 .. MaxVars
                  ELSE { n \in 0 .. MaxVars : num_bits(n) <= ExhaustBits }
  /\ bits \in IF mode = "call" THEN InitTables(num_vars)
              ELSE { TableOf(num_vars, {}) }
  /\ static_small \in Kinds(num_vars)
  /\ pc = "run"
  /\ prev = [ n |-> num_vars, bits |-> bits ]
  /\ last = Call("init", 0, 0, FALSE, << >>)
  /\ valid = TRUE
  /\ enum = IF mode = "sequence" THEN 0 ELSE -1

\* a call can be made; a behaviour is not followed past a call that broke a
\* precondition
Running ==
  /\ pc = "run"
  /\ valid
  /\ IF mode = "call" THEN last.op = "init"
     ELSE num_bits(num_vars) <= ExhaustBits

\* what a call that ran into undefined behaviour may leave in the table
UndefinedOutcomes(b) == { b, [ k \in DOMAIN b |-> {} ], [ k \in DOMAIN b |-> W64 ] }

\* the call `call` leaves the table (n2, b2, st2) and the program at pc2; ok: the
\* call met its precondition; e2: the enumeration count
Step(call, n2, b2, st2, pc2, ok, e2) ==
  /\ mode' = mode
  /\ prev' = IF mode = "call" THEN [ n |-> num_vars, bits |-> bits ] ELSE prev
  /\ last' = IF mode = "call" THEN call ELSE last
  /\ num_vars' = n2
  /\ bits' = b2
  /\ static_small' = st2
  /\ pc' = pc2
  /\ valid' = (valid /\ ok)
  /\ enum' = IF mode = "sequence" THEN e2 ELSE -1

\* the call changes the table in place and returns
Returns(call, b2, ok) == Step(call, num_vars, b2, static_small, "run", ok, -1)

\* an assertion of the call fails
Aborts(call) == Step(call, num_vars, bits, static_small, "abort", FALSE, -1)

\* the call executes undefined behaviour
Undefined(call) ==
  \E b2 \in UndefinedOutcomes(bits) :
    Step(call, num_vars, b2, static_small, "undefined", FALSE, -1)

(***************************************************************************)
(* Actions: one per operation.                                             *)
(***************************************************************************)
HasVar ==
  /\ Running
  /\ \E var_index \in VarIndexes :
       IF ~(var_index < num_vars)
       THEN Aborts(Call("has_var", var_index, 0, FALSE, << >>))
       ELSE Returns(Call("has_var", var_index, 0,
                         call_has_var(static_small, num_vars, bits, var_index),
                         << >>),
                    bits, TRUE)

NextInplace ==
  /\ Running
  /\ Step(Call("next", 0, 0, FALSE, << >>), num_vars,
          call_next_inplace(static_small, num_vars, bits), static_small, "run", TRUE,
          IF enum >= 0 /\ enum < MaxEnum THEN enum + 1 ELSE -1)

\* cofactor0_inplace and cofactor1_inplace assert nothing: an index beyond the
\* table reads projections[6..] or writes blocks past the end (undefined);
\* below 6 the masked shift is carried out on the word
Cofactor0 ==
  /\ Running
  /\ \E var_index \in VarIndexes :
       LET call == Call("cofactor0", var_index, 0, FALSE, << >>)
       IN  IF var_index >= num_vars /\ var_index >= 6
           THEN Undefined(call)
           ELSE Returns(call,
                        call_cofactor0_inplace(static_small, num_vars, bits, var_index),
                        var_index < num_vars)

Cofactor1 ==
  /\ Running
  /\ \E var_index \in VarIndexes :
       LET call == Call("cofactor1", var_index, 0, FALSE, << >>)
       IN  IF var_index >= num_vars /\ var_index >= 6
           THEN Undefined(call)
           ELSE Returns(call,
                        call_cofactor1_inplace(static_small, num_vars, bits, var_index),
                        var_index < num_vars)

\* the generic template asserts var_index < num_vars - 1, the single-word
\* specialisation only var_index < num_vars: there var_index = num_vars - 1
\* goes on to shuffle the word (permutation_masks[5] does not exist)
SwapAdjacent ==
  /\ Running
  /\ \E var_index \in VarIndexes :
       LET call == Call("swap_adjacent", var_index, 0, FALSE, << >>)
       IN  IF static_small
           THEN IF ~(var_index < num_vars) THEN Aborts(call)
                ELSE IF var_index >= 5 THEN Undefined(call)
                ELSE Returns(call,
                             swap_adjacent_inplace_static(num_vars, bits, var_index),
                             var_index + 1 < num_vars)
           ELSE IF ~(var_index < num_vars - 1) THEN Aborts(call)
                ELSE Returns(call, swap_adjacent_inplace(num_vars, bits, var_index),
                             TRUE)

\* swap_inplace asserts nothing: equal indices return at once; otherwise an
\* index beyond the table reads ppermutation_masks out of range or moves
\* blocks past the end (undefined) unless the larger index is at most 5 on a
\* single-word table
Swap ==
  /\ Running
  /\ \E var_index1 \in VarIndexes, var_index2 \in VarIndexes :
       LET call == Call("swap", var_index1, var_index2, FALSE, << >>)
           v2   == IF var_index1 > var_index2 THEN var_index1 ELSE var_index2
       IN  IF var_index1 # var_index2 /\ v2 >= num_vars /\ v2 >= 6
           THEN Undefined(call)
           ELSE Returns(call,
                        call_swap_inplace(static_small, num_vars, bits,
                                          var_index1, var_index2),
                        var_index1 < num_vars /\ var_index2 < num_vars)

Flip ==
  /\ Running
  /\ \E var_index \in VarIndexes :
       LET call == Call("flip", var_index, 0, FALSE, << >>)
       IN  IF ~(var_index < num_vars) THEN Aborts(call)
           ELSE Returns(call,
                        call_flip_inplace(static_small, num_vars, bits, var_index),
                        TRUE)

MinBase ==
  /\ Running
  /\ LET r == min_base_inplace(static_small, num_vars, bits)
     IN  Returns(Call("min_base", 0, 0, FALSE, r.support), r.bits, TRUE)

\* the program stops at a failed assertion with the swaps made before it
Expand ==
  /\ Running
  /\ \E support \in SupportInputs(num_vars) :
       LET call == Call("expand", 0, 0, FALSE, support)
           r    == expand_inplace(static_small, num_vars, bits, support)
       IN  IF r.ok THEN Returns(call, r.bits, TRUE)
           ELSE Step(call, num_vars, r.bits, static_small, "abort", FALSE, -1)

\* extend_to( tt, from ): from is the table of the state, tt another table of
\* n2 variables that holds anything; the state goes on with tt
ExtendTo ==
  /\ Running
  /\ \E n2 \in 0 .. MaxVars :
       \E st2 \in Kinds(n2), b2 \in DstContents(n2) :
         LET call == Call("extend_to", n2, 0, FALSE, << >>)
         IN  IF ~(n2 >= num_vars) THEN Aborts(call)
             ELSE Step(call, n2, extend_to(n2, b2, num_vars, bits), st2, "run",
                       TRUE, -1)

ShiftLeft ==
  /\ Running
  /\ \E shift \in Shifts :
       \E b2 \in (IF static_small
                  THEN shift_left_inplace_static(num_vars, bits, shift)
                  ELSE shift_left_inplace(num_vars, bits, shift)) :
         Returns(Call("shift_left", shift, 0, FALSE, << >>), b2, TRUE)

\* the table b with the bit at address a complemented
Toggle(b, a) ==
  LET k == a \div WordBits
      c == a % WordBits
  IN  [ b EXCEPT ![k] = IF c \in b[k] THEN b[k] \ {c} ELSE b[k] \cup {c} ]

\* addresses at the ends of the table and on both sides of a word boundary
ProbeAddresses(n) ==
  { a \in { 0, 1, WordBits - 1, WordBits, num_bits(n) - WordBits - 1,
            num_bits(n) - WordBits, num_bits(n) - 1 } : a >= 0 /\ a < num_bits(n) }

\* the tables a caller compares the table b with: b itself, its successor,
\* the smallest and the largest table, and b with one bit complemented
CompareTables(n, b) ==
  { b, next_inplace(n, b), TableOf(n, {}), TableOf(n, Addresses(n)) }
    \cup { Toggle(b, a) : a \in ProbeAddresses(n) }

\* less_than( first, second ): first is the table of the state.  The call
\* changes nothing, so within a call sequence it is a stuttering step.
LessThan ==
  /\ Running
  /\ mode = "call"
  /\ \E second \in CompareTables(num_vars, bits) :
       Returns([ op |-> "less_than", i |-> 0, j |-> 0,
                 res |-> call_less_than(static_small, bits, second),
                 sup |-> << >>, second |-> second ],
               bits, TRUE)

\* sum of the weights lf[0 .. n - 1] of the variables that are 1 at address x
RECURSIVE WeightedSum(_, _, _)
WeightedSum(lf, x, n) ==
  IF n = 0 THEN 0
  ELSE lf[n] * Bit(x, n - 1) + WeightedSum(lf, x, n - 1)

\* lf = [w_0, ..., w_{n-1}; T] is a linear form of the function with the set
\* addresses P: f(x) = 1 iff the weights of the variables set in x sum to
\* at least T
IsLinearForm(lf, n, P) ==
  /\ Len(lf) = n + 1
  /\ \A x \in Addresses(n) : (x \in P) <=> (WeightedSum(lf, x, n) >= lf[n + 1])

\* the values the solver may report: weights and threshold
LinearForms(n) ==
  { Append(w, T) : w \in [ 1 .. n -> (-1) .. MaxWeight ],
                   T \in (0 - n) .. (n * MaxWeight + 1) }

\* what is_threshold reads from the solver for the table tt0: a linear form
\* of tt0, or that there is none
SolverAnswers(n, tt0) ==
  LET found == { lf \in LinearForms(n) : IsLinearForm(lf, n, Ones(tt0)) }
  IN  IF found = {} THEN { [ feasible |-> FALSE, values |-> << >> ] }
      ELSE { [ feasible |-> TRUE, values |-> lf ] : lf \in found }

\* is_threshold( tt, &plf ) on a table small enough to enumerate the solver's
\* answers.  The call changes nothing, so within a call sequence it is a
\* stuttering step.
IsThreshold ==
  /\ Running
  /\ mode = "call"
  /\ num_bits(num_vars) <= ExhaustBits
  /\ LET u == unate_loop(static_small, num_vars, bits, bits, 0)
     IN  \E answer \in (IF u.unate THEN SolverAnswers(num_vars, u.tt0)
                        ELSE { [ feasible |-> FALSE, values |-> << >> ] }) :
           LET r == is_threshold(static_small, num_vars, bits, answer)
           IN  Returns([ op |-> "is_threshold", i |-> 0, j |-> 0, res |-> r.ret,
                         sup |-> r.plf, solution |-> answer.values,
                         tt0 |-> r.tt0 ],
                       bits, TRUE)

Next ==
  \/ HasVar
  \/ NextInplace
  \/ Cofactor0
  \/ Cofactor1
  \/ SwapAdjacent
  \/ Swap
  \/ Flip
  \/ MinBase
  \/ Expand
  \/ ExtendTo
  \/ ShiftLeft
  \/ LessThan
  \/ IsThreshold

Spec == Init /\ [][Next]_vars

(***************************************************************************)
(* Properties.  Addresses follow convention I2: bit i of the address x is  *)
(* the value of variable i.                                                *)
(***************************************************************************)
ClearBit(x, i) == x - Bit(x, i) * 2 ^ i

SetBit(x, i) == x + (1 - Bit(x, i)) * 2 ^ i

FlipBit(x, i) == IF Bit(x, i) = 1 THEN x - 2 ^ i ELSE x + 2 ^ i

ExchangeBits(x, i, j) ==
  x - Bit(x, i) * 2 ^ i - Bit(x, j) * 2 ^ j + Bit(x, j) * 2 ^ i + Bit(x, i) * 2 ^ j

\* the unsigned integer a set of bit positions stands for
RECURSIVE Value(_)
Value(S) ==
  IF S = {} THEN 0
  ELSE LET a == CHOOSE x \in S : TRUE IN 2 ^ a + Value(S \ {a})

\* binary increment of an integer of N bits given by its set bits
Successor(S, N) ==
  IF S = 0 .. (N - 1) THEN {}
  ELSE LET k == CHOOSE z \in (0 .. (N - 1)) \ S : \A y \in (0 .. (N - 1)) \ S : z <= y
       IN  { a \in S : a > k } \cup {k}

ZeroTable(n) == [ k \in 0 .. (num_blocks(n) - 1) |-> {} ]

\* the last call was op with indexes inside the table
Called(op) == mode = "call" /\ last.op = op /\ valid /\ pc = "run"

C2_SwapInvolution ==
  /\ (Called("swap") /\ last.i # last.j)
       => call_swap_inplace(static_small, num_vars, bits, last.i, last.j) = prev.bits
  /\ (Called("swap_adjacent") /\ last.i + 1 < num_vars)
       => call_swap_adjacent_inplace(static_small, num_vars, bits, last.i) = prev.bits

\* variables 5 and 6 of a multi-word table were swapped and the table changed
C2_Witness ==
  /\ Called("swap_adjacent") /\ last.i = 5 /\ num_vars > 6 /\ bits # prev.bits

\* C3: min_base_inplace followed by expand_inplace with the returned support
\* reproduces the original table.
C3_MinBaseExpandRoundTrip ==
  Called("min_base") =>
    LET r == expand_inplace(static_small, num_vars, bits, last.sup)
    IN  r.ok /\ r.bits = prev.bits

\* a support with gaps, reaching across the word boundary, was compacted
C3_Witness ==
  /\ Called("min_base") /\ last.sup = << 2, 7 >> /\ bits # prev.bits

\* C4: shift_left by shift >= 2^num_vars yields the constant-zero table.
C4_LargeShiftClears ==
  (Called("shift_left") /\ last.i >= num_bits(prev.n)) => bits = ZeroTable(num_vars)

\* C5: a call with an index i >= num_vars, extend_to to fewer variables and
\* expand_inplace with some support[pos] < pos end in an assertion failure.
C5_InvalidCallAsserts ==
  LET badIndex  == /\ last.op \in { "has_var", "cofactor0", "cofactor1", "flip",
                                    "swap_adjacent" }
                   /\ last.i >= prev.n
      badSwap   == last.op = "swap" /\ (last.i >= prev.n \/ last.j >= prev.n)
      badExtend == last.op = "extend_to" /\ last.i < prev.n
      badExpand == /\ last.op = "expand"
                   /\ \E pos \in 0 .. (Len(last.sup) - 1) : last.sup[pos + 1] < pos
  IN  (mode = "call" /\ (badIndex \/ badSwap \/ badExtend \/ badExpand))
        => (pc = "abort")

\* C6: has_var(t, i) is true iff cofactor0(t, i) and cofactor1(t, i) differ;
\* when it is false both cofactors equal t.
C6_HasVarCofactors ==
  Called("has_var") =>
    LET c0 == call_cofactor0_inplace(static_small, num_vars, prev.bits, last.i)
        c1 == call_cofactor1_inplace(static_small, num_vars, prev.bits, last.i)
    IN  /\ last.res <=> (c0 # c1)
        /\ ~last.res => (c0 = prev.bits /\ c1 = prev.bits)
        /\ bits = prev.bits

\* has_var answered false in the block regime for a table that is not constant
C6_Witness ==
  /\ Called("has_var") /\ last.i >= 6 /\ ~last.res
  /\ \E k \in DOMAIN bits : bits[k] # {} /\ bits[k] # W64

\* C7: next_inplace adds 1 modulo 2^(2^num_vars) to the table read as one
\* unsigned integer, carrying across words; an enumeration from the zero
\* table visits the tables in increasing order and wraps to zero.
C7_NextIncrements ==
  /\ Called("next") =>
       /\ Ones(bits) = Successor(Ones(prev.bits), num_bits(num_vars))
       /\ num_bits(num_vars) <= 16 =>
            Value(Ones(bits)) = (Value(Ones(prev.bits)) + 1) % (2 ^ num_bits(num_vars))
  /\ (mode = "sequence" /\ enum >= 0) =>
       /\ \A a \in Ones(bits) : a < 16
       /\ Value(Ones(bits)) =
            IF num_bits(num_vars) <= 16 THEN enum % (2 ^ num_bits(num_vars)) ELSE enum

\* 2^(2^3) calls from the zero table of 3 variables are back at zero
C7_Witness ==
  /\ mode = "sequence" /\ num_vars = 3 /\ enum = 256 /\ bits = ZeroTable(3)

\* C8: the bit of cofactor0(t, i) (cofactor1(t, i)) at the address x is the
\* bit of t at x with bit i cleared (set), and num_vars is unchanged.  The
\* addresses x with ClearBit(x, i) in P are the p in P with bit i clear and
\* their partners p + 2^i; likewise for SetBit.
C8_CofactorBits ==
  /\ Called("cofactor0") =>
       /\ num_vars = prev.n
       /\ DOMAIN bits = DOMAIN prev.bits
       /\ LET P == { p \in Ones(prev.bits) : Bit(p, last.i) = 0 }
          IN  Ones(bits) = P \cup { SetBit(p, last.i) : p \in P }
  /\ Called("cofactor1") =>
       /\ num_vars = prev.n
       /\ DOMAIN bits = DOMAIN prev.bits
       /\ LET P == { p \in Ones(prev.bits) : Bit(p, last.i) = 1 }
          IN  Ones(bits) = P \cup { ClearBit(p, last.i) : p \in P }

\* cofactor1 on a block-selecting variable changed a table without clearing it
C8_Witness ==
  /\ Called("cofactor1") /\ last.i >= 6 /\ bits # prev.bits
  /\ bits # ZeroTable(num_vars)

\* C9: the bit of swap(t, i, j) at the address x is the bit of t at x with
\* bits i and j exchanged, for distinct valid i and j in either order.
\* ExchangeBits is its own inverse, so the addresses x with ExchangeBits(x)
\* set in t are the images of the set addresses of t.
C9_SwapBits ==
  (Called("swap") /\ last.i # last.j) =>
    /\ num_vars = prev.n
    /\ DOMAIN bits = DOMAIN prev.bits
    /\ Ones(bits) = { ExchangeBits(p, last.i, last.j) : p \in Ones(prev.bits) }

\* a swap across the word boundary, larger index first, changed the table
C9_Witness ==
  /\ Called("swap") /\ last.i >= 6 /\ last.j <= 5 /\ bits # prev.bits

\* C10: the bit of flip(t, i) at the address x is the bit of t at x XOR 2^i
\* (x XOR 2^i is its own inverse, so the set addresses of the result are the
\* images of those of t), and flipping the same variable again restores t.
C10_FlipBits ==
  Called("flip") =>
    /\ num_vars = prev.n
    /\ DOMAIN bits = DOMAIN prev.bits
    /\ Ones(bits) = { FlipBit(p, last.i) : p \in Ones(prev.bits) }
    /\ call_flip_inplace(static_small, num_vars, bits, last.i) = prev.bits

\* a flip of a block-selecting variable changed the table
C10_Witness ==
  /\ Called("flip") /\ last.i >= 6 /\ bits # prev.bits

\* A < B for the unsigned integers whose set bits are A and B: the highest
\* position where they differ is set in B
UnsignedLess(A, B) ==
  /\ A # B
  /\ LET D == (A \ B) \cup (B \ A)
     IN  (CHOOSE c \in D : \A d \in D : d <= c) \in B

\* C11: less_than is a strict total order on tables of the same num_vars
\* (irreflexive, transitive, exactly one of a < b, b < a, a = b) and is the
\* comparison of the tables as unsigned integers of 2^num_vars bits.
C11_LessThanTotalOrder ==
  Called("less_than") =>
    LET st == static_small
        a  == prev.bits
        b  == last.second
        lt(x, y) == call_less_than(st, x, y)
    IN  /\ ~lt(a, a) /\ ~lt(b, b)
        /\ Cardinality({ r \in { "lt", "gt", "eq" } :
                           \/ r = "lt" /\ lt(a, b)
                           \/ r = "gt" /\ lt(b, a)
                           \/ r = "eq" /\ equal(a, b) }) = 1
        /\ equal(a, b) <=> (Ones(a) = Ones(b))
        /\ last.res <=> UnsignedLess(Ones(a), Ones(b))
        /\ num_bits(num_vars) <= 16 => (last.res <=> Value(Ones(a)) < Value(Ones(b)))
        /\ \A c \in CompareTables(num_vars, b) \cup CompareTables(num_vars, a) :
             /\ (lt(a, b) /\ lt(b, c)) => lt(a, c)
             /\ (lt(c, a) /\ lt(a, b)) => lt(c, b)
             /\ (lt(a, c) /\ lt(c, b)) => lt(a, b)

\* two multi-word tables that agree in their top word and differ below it
\* were compared, and the first was the smaller one
C11_Witness ==
  /\ Called("less_than") /\ num_vars > 6 /\ last.res
  /\ last.second[num_blocks(num_vars) - 1] = bits[num_blocks(num_vars) - 1]
  /\ bits[num_blocks(num_vars) - 1] # {}

\* C12: after extend_to(dst, src) with dst.num_vars >= src.num_vars the bit of
\* dst at every address x is the bit of src at x mod 2^src.num_vars, whatever
\* dst held before, so dst depends on no variable v >= src.num_vars.  The
\* addresses x with x mod 2^src.num_vars set in src are the set addresses of
\* src repeated every 2^src.num_vars positions.
C12_ExtendToBits ==
  Called("extend_to") =>
    /\ num_vars = last.i
    /\ DOMAIN bits = 0 .. (num_blocks(num_vars) - 1)
    /\ Ones(bits) =
         { p + k * num_bits(prev.n) :
             p \in Ones(prev.bits),
             k \in 0 .. (num_bits(num_vars - prev.n) - 1) }
    /\ \A v \in prev.n .. (num_vars - 1) :
         ~call_has_var(static_small, num_vars, bits, v)

\* a table of fewer than 6 variables that is not constant was extended to a
\* multi-word table
C12_Witness ==
  /\ Called("extend_to") /\ prev.n \in 1 .. 5 /\ num_vars > 6
  /\ prev.bits[0] # {} /\ bits[0] # W64

\* the function with the set addresses P depends on the variable v
DependsOn(P, v) == { FlipBit(p, v) : p \in P } # P

\* the address whose bit support[p] is bit p of x, for every position p of
\* support, and whose other bits are 0
RECURSIVE Renamed(_, _, _)
Renamed(x, support, p) ==
  IF p = Len(support) THEN 0
  ELSE Bit(x, p) * 2 ^ support[p + 1] + Renamed(x, support, p + 1)

\* C13: min_base_inplace returns exactly the variables of the functional
\* support in strictly increasing order; afterwards the table depends on the
\* variable p iff p < k (k the length of the support), and position p holds
\* the original variable support[p]: the bit at x is the original bit at the
\* address that has bit p of x at position support[p].
C13_MinBaseSupport ==
  Called("min_base") =>
    LET P == Ones(prev.bits)
        support == last.sup
        k == Len(support)
    IN  /\ num_vars = prev.n
        /\ Increasing(support)
        /\ { support[p] : p \in 1 .. k } = { v \in 0 .. (num_vars - 1) : DependsOn(P, v) }
        /\ \A p \in 0 .. (num_vars - 1) : DependsOn(Ones(bits), p) <=> p < k
        /\ Ones(bits) = { x \in Addresses(num_vars) : Renamed(x, support, 0) \in P }

\* two variables with a gap below each of them, one of them selecting blocks,
\* were moved to the positions 0 and 1
C13_Witness ==
  /\ Called("min_base") /\ Len(last.sup) = 2
  /\ last.sup[1] >= 1 /\ last.sup[2] >= 6 /\ last.sup[2] > last.sup[1] + 1

\* C14: for a multi-word table (num_vars > 6) and 0 <= shift < 2^num_vars the
\* bit of shift_left(t, shift) at the address x is the bit of t at x - shift
\* when x >= shift and 0 when x < shift, across word boundaries, and a shift
\* of 0 changes nothing.
C14_ShiftLeftBits ==
  (Called("shift_left") /\ prev.n > 6 /\ last.i < num_bits(prev.n)) =>
    /\ num_vars = prev.n
    /\ DOMAIN bits = DOMAIN prev.bits
    /\ Ones(bits) = { x \in { p + last.i : p \in Ones(prev.bits) } :
                        x < num_bits(num_vars) }
    /\ last.i = 0 => bits = prev.bits

\* a shift by 65 carried the top bit of block 0 into the bottom of block 2
C14_Witness ==
  /\ Called("shift_left") /\ num_vars = 8 /\ last.i = 65
  /\ 63 \in prev.bits[0] /\ 0 \in bits[2]

\* C15: for every i with i + 1 < num_vars, swap_adjacent(t, i) is the table
\* swap(t, i, i + 1), in each regime of swap_adjacent_inplace (i < 5, i = 5,
\* i >= 6).
C15_SwapAdjacentIsSwap ==
  (Called("swap_adjacent") /\ last.i + 1 < prev.n) =>
    /\ bits = call_swap_inplace(static_small, prev.n, prev.bits, last.i, last.i + 1)
    /\ bits = call_swap_inplace(static_small, prev.n, prev.bits, last.i + 1, last.i)

\* the half-word exchange between word pairs (i = 5) changed the second
\* block of a table of 8 variables
C15_Witness ==
  /\ Called("swap_adjacent") /\ last.i = 5 /\ num_vars = 8
  /\ bits[1] # prev.bits[1]

\* the function with the set addresses P is monotone non-decreasing
\* (non-increasing) in the variable v
PositiveUnate(P, v) == \A p \in P : Bit(p, v) = 0 => SetBit(p, v) \in P

NegativeUnate(P, v) == \A p \in P : Bit(p, v) = 1 => ClearBit(p, v) \in P

\* C16: for a table tt that is unate in every variable, the working copy tt0
\* of is_threshold (tt with every negative-unate variable flipped) is positive
\* unate in every variable, and when the solver's values are a linear form of
\* tt0, the vector is_threshold hands back (w_i negated and T := T + w_i for
\* each negative-unate i) is a linear form of tt: num_vars weights followed
\* by the threshold.
C16_ThresholdNormalisation ==
  ( /\ Called("is_threshold")
    /\ \A v \in 0 .. (num_vars - 1) :
         PositiveUnate(Ones(prev.bits), v) \/ NegativeUnate(Ones(prev.bits), v) ) =>
    /\ \A v \in 0 .. (num_vars - 1) : PositiveUnate(Ones(last.tt0), v)
    /\ IsLinearForm(last.solution, num_vars, Ones(last.tt0)) =>
         /\ last.res
         /\ Len(last.sup) = num_vars + 1
         /\ IsLinearForm(last.sup, num_vars, Ones(prev.bits))
    /\ bits = prev.bits

\* a table of 3 variables, negative unate in variable 0 and positive unate in
\* variable 1, was normalised and the weight of variable 0 came back negated
C16_Witness ==
  /\ Called("is_threshold") /\ last.res /\ num_vars = 3
  /\ last.tt0 # prev.bits
  /\ last.solution[1] > 0 /\ last.sup[1] < 0 /\ last.sup[2] > 0
  /\ last.sup[4] # last.solution[4]

====
